---- MODULE Spec2Model ----
(***************************************************************************)
(* Risk Scoring & Escalation Engine of Raga/Asguard.                       *)
(*                                                                         *)
(* CalculateRisk (services/risk_engine.go) scores a transaction with five  *)
(* weighted rules in float64 arithmetic, truncates the percentage to an    *)
(* int, derives a level, and for scores >= 40 consults the Groq advisory   *)
(* client AnalyzeTransaction (services/ai_service.go), merging its opinion *)
(* into the returned RiskResult.                                           *)
(***************************************************************************)
EXTENDS Integers, Sequences, FiniteSets, TLC

----------------------------------------------------------------------------
(* float64 arithmetic.  A non-negative finite float64 is represented as    *)
(* [m, e] with value m * 2^e, where m is a natural number written as a    *)
(* little-endian sequence of limbs in 0..Base-1 with no leading zero limb  *)
(* (<<>> is 0).  Every operation computes the exact result and rounds it   *)
(* once to 53 significant bits, round-half-to-even, as IEEE-754 binary64   *)
(* does.  The values the scorer handles are far from overflow and          *)
(* underflow, and are never negative.                                      *)

MantissaBits == 53
LimbBits == 15
Base == 2 ^ LimbBits

Norm(a) ==
    LET nz == {i \in 1..Len(a) : a[i] # 0}
    IN  IF nz = {} THEN <<>>
        ELSE SubSeq(a, 1, CHOOSE i \in nz : \A j \in nz : j <= i)

RECURSIVE AddN(_, _, _)
AddN(a, b, carry) ==
    IF a = <<>> /\ b = <<>>
    THEN IF carry = 0 THEN <<>> ELSE <<carry>>
    ELSE LET x == IF a = <<>> THEN 0 ELSE Head(a)
             y == IF b = <<>> THEN 0 ELSE Head(b)
             s == x + y + carry
         IN  <<s % Base>> \o AddN(IF a = <<>> THEN <<>> ELSE Tail(a),
                                  IF b = <<>> THEN <<>> ELSE Tail(b),
                                  s \div Base)

RECURSIVE MulLimb(_, _, _)
MulLimb(a, d, carry) ==
    IF a = <<>>
    THEN IF carry = 0 THEN <<>> ELSE <<carry>>
    ELSE LET p == Head(a) * d + carry
         IN  <<p % Base>> \o MulLimb(Tail(a), d, p \div Base)

RECURSIVE MulN(_, _)
MulN(a, b) ==
    IF a = <<>> \/ b = <<>> THEN <<>>
    ELSE Norm(AddN(MulLimb(b, Head(a), 0), <<0>> \o MulN(Tail(a), b), 0))

(* Number of significant bits of a normalised natural. *)
BitLen(a) ==
    IF a = <<>> THEN 0
    ELSE LimbBits * (Len(a) - 1)
           + (CHOOSE n \in 1..LimbBits : 2 ^ (n - 1) <= a[Len(a)] /\ a[Len(a)] < 2 ^ n)

(* Bit j of a, bit 0 being the least significant. *)
Bit(a, j) ==
    IF j \div LimbBits + 1 > Len(a) THEN 0
    ELSE (a[j \div LimbBits + 1] \div (2 ^ (j % LimbBits))) % 2

ShiftRightN(a, k) ==
    LET q == k \div LimbBits
        s == k % LimbBits
        b == IF q >= Len(a) THEN <<>> ELSE SubSeq(a, q + 1, Len(a))
    IN  Norm([i \in 1..Len(b) |->
                (b[i] \div (2 ^ s))
                  + (IF i < Len(b) THEN (b[i + 1] % (2 ^ s)) * (2 ^ (LimbBits - s)) ELSE 0)])

ShiftLeftN(a, k) ==
    LET q == k \div LimbBits
        s == k % LimbBits
        c == [i \in 1..(Len(a) + 1) |->
                (IF i <= Len(a) THEN (a[i] % (2 ^ (LimbBits - s))) * (2 ^ s) ELSE 0)
                  + (IF i > 1 THEN a[i - 1] \div (2 ^ (LimbBits - s)) ELSE 0)]
    IN  IF a = <<>> THEN <<>> ELSE Norm([i \in 1..q |-> 0] \o c)

(* Round an exact value to the nearest float64, ties to even. *)
Round(f) ==
    LET m == Norm(f.m)
        n == BitLen(m)
    IN  IF n <= MantissaBits THEN [m |-> m, e |-> f.e]
        ELSE LET k == n - MantissaBits
                 kept == ShiftRightN(m, k)
                 guard == Bit(m, k - 1)
                 sticky == \E j \in 0..(k - 2) : Bit(m, j) = 1
                 up == guard = 1 /\ (sticky \/ Bit(kept, 0) = 1)
             IN  [m |-> IF up THEN AddN(kept, <<1>>, 0) ELSE kept,
                  e |-> f.e + k]

(* The exact (unrounded) sum and product. *)
ExactAdd(x, y) ==
    IF x.m = <<>> THEN y
    ELSE IF y.m = <<>> THEN x
    ELSE LET e == IF x.e < y.e THEN x.e ELSE y.e
         IN  [m |-> AddN(ShiftLeftN(x.m, x.e - e), ShiftLeftN(y.m, y.e - e), 0),
              e |-> e]

ExactMul(x, y) == [m |-> MulN(x.m, y.m), e |-> x.e + y.e]

FAdd(x, y) == Round(ExactAdd(x, y))
FMul(x, y) == Round(ExactMul(x, y))
(* Fused multiply-add x*y + z: one rounding of the exact result. *)
FMA(x, y, z) == Round(ExactAdd(ExactMul(x, y), z))

(* The float64 of a small integer constant (exact). *)
FromInt(n) == [m |-> IF n = 0 THEN <<>> ELSE <<n>>, e |-> 0]

(* Division of a natural by a small integer d: quotient and remainder. *)
RECURSIVE DivSmall(_, _)
DivSmall(a, d) ==
    IF a = <<>> THEN [q |-> <<>>, r |-> 0]
    ELSE LET hi == DivSmall(Tail(a), d)
             cur == hi.r * Base + Head(a)
         IN  [q |-> <<cur \div d>> \o hi.q, r |-> cur % d]

(* The float64 nearest to the decimal constant n/d, 0 < n < d < Base: the  *)
(* quotient n * 2^(5*LimbBits) / d is computed by long division, a sticky  *)
(* bit records a nonzero remainder, and the result is rounded.             *)
FromDecimal(n, d) ==
    LET qr == DivSmall(<<0, 0, 0, 0, 0, n>>, d)
        twice == AddN(qr.q, qr.q, 0)
    IN  Round([m |-> IF qr.r = 0 THEN twice ELSE AddN(twice, <<1>>, 0),
               e |-> 0 - (5 * LimbBits + 1)])

(* Go's int(f) for a non-negative float64 below Base: truncation toward    *)
(* zero.                                                                   *)
TruncToInt(f) ==
    LET w == IF f.e >= 0 THEN ShiftLeftN(f.m, f.e) ELSE ShiftRightN(f.m, 0 - f.e)
    IN  IF w = <<>> THEN 0 ELSE w[1]

----------------------------------------------------------------------------
(* Inputs.                                                                 *)

(* Amounts are whole currency units within AmountDelta of a tier boundary, *)
(* plus zero; such values are exact in float64 and compare as integers.    *)
AmountDelta == 1
TierBounds == {50000, 100000, 500000}
Amounts == {0} \cup {b + d : b \in TierBounds, d \in (0 - AmountDelta)..AmountDelta}

Currencies == {"NGN", "USD"}
DeviceIDs == {"", "device_789"}
IPAddresses == {"", "192.168.1.5"}
Locations == {"", "Lagos, Nigeria"}

(* TransactionData *)
Transactions ==
    [UserID : {"user_123"}, TransactionID : {"txn_456"}, Amount : Amounts,
     Currency : Currencies, IPAddress : IPAddresses, DeviceID : DeviceIDs,
     Location : Locations]

NoTransaction ==
    [UserID |-> "", TransactionID |-> "", Amount |-> 0, Currency |-> "",
     IPAddress |-> "", DeviceID |-> "", Location |-> ""]

(* AIResult; the two float64 fields are carried in hundredths (85 is 0.85) *)
(* because the engine only copies them.  ZeroAIResult is Go's AIResult{}.  *)
ZeroAIResult ==
    [FraudProbability |-> 0, RecommendedAction |-> "", Reasoning |-> "",
     Confidence |-> 0]

(* How the build evaluates x*y + z in float64.  The Go specification lets  *)
(* an implementation fuse a multiplication with the addition that uses it  *)
(* (arm64, ppc64le, s390x, riscv64 do; amd64 by default does not).  In the *)
(* first addition of the weighted sum either product may be the fused one. *)
Fusions == {"none", "left", "right"}

----------------------------------------------------------------------------
(* Rule-based scoring (CalculateRisk, first half).                         *)

AmountRuleInclusive(t) ==
    IF t.Amount >= 500000
    THEN [risk |-> FromInt(1), reasons |-> <<"Very high transaction amount (>500k)">>]
    ELSE IF t.Amount >= 100000
    THEN [risk |-> FromDecimal(6, 10), reasons |-> <<"High transaction amount (>100k)">>]
    ELSE IF t.Amount >= 50000
    THEN [risk |-> FromDecimal(3, 10), reasons |-> <<"Elevated transaction amount (>50k)">>]
    ELSE [risk |-> FromInt(0), reasons |-> <<>>]

AmountRule(t) ==
    IF t.Amount > 500000
    THEN [risk |-> FromInt(1), reasons |-> <<"Very high transaction amount (>500k)">>]
    ELSE IF t.Amount > 100000
    THEN [risk |-> FromDecimal(6, 10), reasons |-> <<"High transaction amount (>100k)">>]
    ELSE IF t.Amount > 50000
    THEN [risk |-> FromDecimal(3, 10), reasons |-> <<"Elevated transaction amount (>50k)">>]
    ELSE [risk |-> FromInt(0), reasons |-> <<>>]

CurrencyRule(t) ==
    IF t.Currency # "NGN"
    THEN [risk |-> FromInt(1),
          reasons |-> <<"Foreign currency transaction (" \o t.Currency \o ")">>]
    ELSE [risk |-> FromInt(0), reasons |-> <<>>]

DeviceRule(t) ==
    IF t.DeviceID = ""
    THEN [risk |-> FromInt(1), reasons |-> <<"Missing device ID">>]
    ELSE [risk |-> FromInt(0), reasons |-> <<>>]

IPRule(t) ==
    IF t.IPAddress = ""
    THEN [risk |-> FromInt(1), reasons |-> <<"Missing IP address">>]
    ELSE [risk |-> FromInt(0), reasons |-> <<>>]

LocationRule(t) ==
    IF t.Location = ""
    THEN [risk |-> FromInt(1), reasons |-> <<"Missing location">>]
    ELSE [risk |-> FromInt(0), reasons |-> <<>>]

RuleReasonsIPFirst(t) ==
    AmountRule(t).reasons \o CurrencyRule(t).reasons \o IPRule(t).reasons
      \o DeviceRule(t).reasons \o LocationRule(t).reasons

(* reasons after the five rules, in evaluation order *)
RuleReasons(t) ==
    AmountRule(t).reasons \o CurrencyRule(t).reasons \o DeviceRule(t).reasons
      \o IPRule(t).reasons \o LocationRule(t).reasons

(* x*y + z where the build may fuse the product x*y into the addition *)
MulAdd(fu, x, y, z) == IF fu THEN FMA(x, y, z) ELSE FAdd(FMul(x, y), z)

WeightedScoreOldWeights(t, fu) ==
    LET amountRisk == AmountRule(t).risk
        currencyRisk == CurrencyRule(t).risk
        deviceRisk == DeviceRule(t).risk
        ipRisk == IPRule(t).risk
        locationRisk == LocationRule(t).risk
        s1 == IF fu = "left"
              THEN FMA(amountRisk, FromDecimal(40, 100),
                       FMul(currencyRisk, FromDecimal(20, 100)))
              ELSE MulAdd(fu = "right", currencyRisk, FromDecimal(20, 100),
                          FMul(amountRisk, FromDecimal(40, 100)))
        s2 == MulAdd(fu # "none", deviceRisk, FromDecimal(20, 100), s1)
        s3 == MulAdd(fu # "none", ipRisk, FromDecimal(20, 100), s2)
    IN  MulAdd(fu # "none", locationRisk, FromDecimal(20, 100), s3)

(* score := (amountRisk * 0.35) + (currencyRisk * 0.20) + (deviceRisk *    *)
(*          0.15) + (ipRisk * 0.15) + (locationRisk * 0.15)                *)
WeightedScore(t, fu) ==
    LET amountRisk == AmountRule(t).risk
        currencyRisk == CurrencyRule(t).risk
        deviceRisk == DeviceRule(t).risk
        ipRisk == IPRule(t).risk
        locationRisk == LocationRule(t).risk
        s1 == IF fu = "left"
              THEN FMA(amountRisk, FromDecimal(35, 100),
                       FMul(currencyRisk, FromDecimal(20, 100)))
              ELSE MulAdd(fu = "right", currencyRisk, FromDecimal(20, 100),
                          FMul(amountRisk, FromDecimal(35, 100)))
        s2 == MulAdd(fu # "none", deviceRisk, FromDecimal(15, 100), s1)
        s3 == MulAdd(fu # "none", ipRisk, FromDecimal(15, 100), s2)
    IN  MulAdd(fu # "none", locationRisk, FromDecimal(15, 100), s3)

(* finalScore := int(score * 100) *)
FinalScore(t, fu) == TruncToInt(FMul(WeightedScore(t, fu), FromInt(100)))

RuleLevelStrict(finalScore) ==
    IF finalScore > 70 THEN "HIGH"
    ELSE IF finalScore > 40 THEN "MEDIUM"
    ELSE "LOW"

(* level from the rule-based score alone *)
RuleLevel(finalScore) ==
    IF finalScore >= 70 THEN "HIGH"
    ELSE IF finalScore >= 40 THEN "MEDIUM"
    ELSE "LOW"

AIGate50(finalScore) == finalScore >= 50
AIGate30(finalScore) == finalScore >= 30

(* if finalScore >= 40 { ... AnalyzeTransaction(tx, finalScore) ... } *)
AIGate(finalScore) == finalScore >= 40

----------------------------------------------------------------------------
(* The advisory client (AnalyzeTransaction in ai_service.go).              *)

(* A Go string is a sequence of characters; a whole JSON object text is    *)
(* written as one element naming an entry of JSONDocs.                     *)
WhiteSpace == {" ", "\n", "\t"}

(* strings.TrimSpace *)
TrimSpace(s) ==
    LET keep == {i \in 1..Len(s) : s[i] \notin WhiteSpace}
    IN  IF keep = {} THEN <<>>
        ELSE SubSeq(s, CHOOSE i \in keep : \A j \in keep : i <= j,
                       CHOOSE i \in keep : \A j \in keep : j <= i)

(* strings.TrimPrefix, strings.TrimSuffix *)
TrimPrefix(s, prefix) ==
    IF Len(s) >= Len(prefix) /\ SubSeq(s, 1, Len(prefix)) = prefix
    THEN SubSeq(s, Len(prefix) + 1, Len(s))
    ELSE s

TrimSuffix(s, suffix) ==
    IF Len(s) >= Len(suffix) /\ SubSeq(s, Len(s) - Len(suffix) + 1, Len(s)) = suffix
    THEN SubSeq(s, 1, Len(s) - Len(suffix))
    ELSE s

(* The backquote character (SANY does not read one inside a string). *)
Backquote == "backquote"

Fence == <<Backquote, Backquote, Backquote>>
FenceJSON == Fence \o <<"j", "s", "o", "n">>

(* rawContent after TrimSpace and the stripping of markdown code fences *)
StripFences(content) ==
    TrimSpace(TrimSuffix(TrimPrefix(TrimPrefix(TrimSpace(content), FenceJSON), Fence), Fence))

(* JSON keys of AIResult, by struct field *)
JSONKey ==
    [FraudProbability |-> "fraud_probability", RecommendedAction |-> "recommended_action",
     Reasoning |-> "reasoning", Confidence |-> "confidence"]

AllKeys == {JSONKey[f] : f \in DOMAIN JSONKey}

(* The JSON object texts a reply may contain: the keys present, their      *)
(* values, whether every present value has the JSON type of its field, and *)
(* whether keys unknown to AIResult are present too.                       *)
Doc(keys, fp, action, reasoning, confidence, typed, extra) ==
    [keys |-> keys, typed |-> typed, extra |-> extra,
     value |-> [FraudProbability |-> fp, RecommendedAction |-> action,
                Reasoning |-> reasoning, Confidence |-> confidence]]

JSONDocs ==
    [d \in {"{approve}", "{review}", "{block}", "{hold}", "{no_action}",
            "{block_no_reasoning}", "{approve_out_of_range}", "{review_extra}",
            "{mistyped}"} |->
       CASE d = "{approve}" ->
              Doc(AllKeys, 10, "APPROVE", "Amount and device are consistent with history", 90, TRUE, FALSE)
         [] d = "{review}" ->
              Doc(AllKeys, 45, "REVIEW", "Large USD transaction from Lagos warrants manual review", 85, TRUE, FALSE)
         [] d = "{block}" ->
              Doc(AllKeys, 92, "BLOCK", "Pattern matches account takeover", 95, TRUE, FALSE)
         [] d = "{hold}" ->
              Doc(AllKeys, 50, "HOLD", "Not sure", 40, TRUE, FALSE)
         [] d = "{no_action}" ->
              Doc(AllKeys \ {"recommended_action"}, 50, "", "Not sure", 40, TRUE, FALSE)
         [] d = "{block_no_reasoning}" ->
              Doc(AllKeys \ {"reasoning"}, 92, "BLOCK", "", 95, TRUE, FALSE)
         [] d = "{approve_out_of_range}" ->
              Doc(AllKeys, 0 - 20, "APPROVE", "Safe", 150, TRUE, FALSE)
         [] d = "{review_extra}" ->
              Doc(AllKeys, 45, "REVIEW", "Unusual hour", 85, TRUE, TRUE)
         [] d = "{mistyped}" ->
              Doc(AllKeys, 45, "REVIEW", "Unusual hour", 85, FALSE, FALSE)]

(* json.Unmarshal([]byte(rawContent), &aiResult) into a zero AIResult:     *)
(* the text must be one JSON value (white space around it is allowed);     *)
(* absent keys leave the zero value, unknown keys are skipped, a value of  *)
(* the wrong JSON type is an error.                                        *)
Unmarshal(raw) ==
    LET text == SelectSeq(raw, LAMBDA c : c \notin WhiteSpace)
    IN  IF Len(text) = 1 /\ text[1] \in DOMAIN JSONDocs /\ JSONDocs[text[1]].typed
        THEN [err |-> FALSE,
              result |-> [f \in DOMAIN JSONKey |->
                            IF JSONKey[f] \in JSONDocs[text[1]].keys
                            THEN JSONDocs[text[1]].value[f]
                            ELSE ZeroAIResult[f]]]
        ELSE [err |-> TRUE, result |-> ZeroAIResult]

(* The outcome of client.Do and of reading the body: a transport failure   *)
(* (which includes the 10 s client timeout), or an HTTP response with a    *)
(* status and a body that either decodes as a groqResponse (Error set or   *)
(* not, a list of choices' message contents) or does not.                  *)
Response(transport, status, decodes, error, choices) ==
    [transport |-> transport, status |-> status, decodes |-> decodes,
     Error |-> error, Choices |-> choices]

Contents ==
    {<<d>> : d \in DOMAIN JSONDocs}
      \cup {<<" ">> \o FenceJSON \o <<"\n", "{review}", "\n">> \o Fence \o <<"\n">>,
            Fence \o <<"\n", "{block}", "\n">> \o Fence,
            FenceJSON \o <<"{approve}">>,
            <<"{approve}">> \o Fence,
            Fence \o <<"g", "o", "\n", "{block}", "\n">> \o Fence,
            <<"S", "u", "r", "e", " ", "{block}">>,
            <<>>,
            <<" ">>}

ChoiceLists ==
    {<<>>} \cup {<<c>> : c \in Contents}
      \cup {<<<<"{approve}">>, <<"{block}">>>>, <<<<>>, <<"{block}">>>>}

Statuses == {200, 429}

Responses ==
    {Response(t, 0, FALSE, FALSE, <<>>) : t \in {"timeout", "refused"}}
      \cup {Response("ok", s, FALSE, FALSE, <<>>) : s \in Statuses}
      \cup {Response("ok", s, TRUE, e, c) : s \in Statuses, e \in BOOLEAN, c \in ChoiceLists}

(* An error value: "" is nil, anything else names the failing step. *)
Failed(kind) == [err |-> kind, result |-> ZeroAIResult]

AnalyzeResponseNoValidation(resp) ==
    IF resp.transport # "ok" THEN Failed("Groq HTTP request failed")
    ELSE IF ~resp.decodes THEN Failed("failed to decode Groq response")
    ELSE IF resp.Error THEN Failed("Groq API error")
    ELSE IF Len(resp.Choices) = 0 THEN Failed("Groq returned no choices")
    ELSE LET parsed == Unmarshal(StripFences(resp.Choices[1]))
         IN  IF parsed.err THEN Failed("AI returned invalid JSON")
             ELSE [err |-> "", result |-> parsed.result]

(* AnalyzeTransaction from client.Do on: what it returns for a response *)
AnalyzeResponse(resp) ==
    IF resp.transport # "ok" THEN Failed("Groq HTTP request failed")
    ELSE IF ~resp.decodes THEN Failed("failed to decode Groq response")
    ELSE IF resp.Error THEN Failed("Groq API error")
    ELSE IF Len(resp.Choices) = 0 THEN Failed("Groq returned no choices")
    ELSE LET parsed == Unmarshal(StripFences(resp.Choices[1]))
         IN  IF parsed.err THEN Failed("AI returned invalid JSON")
             ELSE IF parsed.result.RecommendedAction \notin {"APPROVE", "REVIEW", "BLOCK"}
             THEN Failed("AI returned unexpected action")
             ELSE [err |-> "", result |-> parsed.result]

----------------------------------------------------------------------------
(* The escalation gate (CalculateRisk, second half).                       *)

(* The em dash of the source text is written "-". *)
AIUnavailableReason == "AI analysis unavailable - escalated to HIGH for manual review"

(* err != nil: escalate to HIGH, aiResult stays the zero value. *)
OnFailureKeepsLevel(lvl, rs) ==
    [level |-> lvl, reasons |-> Append(rs, AIUnavailableReason),
     aiResult |-> ZeroAIResult]

OnFailure(lvl, rs) ==
    [level |-> "HIGH", reasons |-> Append(rs, AIUnavailableReason),
     aiResult |-> ZeroAIResult]

(* case "BLOCK" *)
OnBlockRaisesOneStep(lvl, rs, result) ==
    [level |-> IF lvl = "LOW" THEN "MEDIUM" ELSE "HIGH",
     reasons |-> rs \o <<"AI recommends BLOCK", result.Reasoning>>,
     aiResult |-> result]

OnBlock(lvl, rs, result) ==
    [level |-> "HIGH",
     reasons |-> Append(rs, "AI recommends BLOCK: " \o result.Reasoning),
     aiResult |-> result]

(* case "REVIEW" *)
OnReviewSetsMedium(lvl, rs, result) ==
    [level |-> "MEDIUM",
     reasons |-> Append(rs, "AI recommends REVIEW: " \o result.Reasoning),
     aiResult |-> result]

OnReview(lvl, rs, result) ==
    [level |-> IF lvl = "LOW" THEN "MEDIUM" ELSE lvl,
     reasons |-> Append(rs, "AI recommends REVIEW: " \o result.Reasoning),
     aiResult |-> result]

(* case "APPROVE" *)
OnApproveLowers(lvl, rs, result) ==
    [level |-> "LOW",
     reasons |-> Append(rs, "AI recommends APPROVE: " \o result.Reasoning),
     aiResult |-> result]

OnApproveSilent(lvl, rs, result) ==
    [level |-> lvl, reasons |-> rs, aiResult |-> result]

OnApprove(lvl, rs, result) ==
    [level |-> lvl,
     reasons |-> Append(rs, "AI recommends APPROVE: " \o result.Reasoning),
     aiResult |-> result]

(* The branch on err and the switch on result.RecommendedAction (which has *)
(* no default case): the new level, reasons and aiResult given the         *)
(* client's return values.                                                 *)
Merge(lvl, rs, out) ==
    IF out.err # "" THEN OnFailure(lvl, rs)
    ELSE IF out.result.RecommendedAction = "BLOCK" THEN OnBlock(lvl, rs, out.result)
    ELSE IF out.result.RecommendedAction = "REVIEW" THEN OnReview(lvl, rs, out.result)
    ELSE IF out.result.RecommendedAction = "APPROVE" THEN OnApprove(lvl, rs, out.result)
    ELSE [level |-> lvl, reasons |-> rs, aiResult |-> out.result]

RiskResultSwapped(score, lvl, rs, triggered, ai) ==
    [Score |-> score, Level |-> lvl, Reasons |-> rs, AITriggered |-> triggered,
     AIConfidence |-> ai.FraudProbability, AISummary |-> ai.Reasoning,
     AIRecommendation |-> ai.RecommendedAction,
     AIFraudProbability |-> ai.Confidence]

(* return RiskResult{...} *)
RiskResult(score, lvl, rs, triggered, ai) ==
    [Score |-> score, Level |-> lvl, Reasons |-> rs, AITriggered |-> triggered,
     AIConfidence |-> ai.Confidence, AISummary |-> ai.Reasoning,
     AIRecommendation |-> ai.RecommendedAction,
     AIFraudProbability |-> ai.FraudProbability]

----------------------------------------------------------------------------
(* State of the process and of one evaluation.                             *)

VARIABLES
    GROQ_API_KEY,  \* the environment variable read by AnalyzeTransaction
    fusion,        \* how this build evaluates the weighted sum
    pc,            \* "idle", "awaiting" (client.Do in progress) or "done"
    tx,            \* CalculateRisk's argument
    finalScore,    \* locals of CalculateRisk
    level,
    reasons,
    aiTriggered,
    aiResult,
    err,           \* the error AnalyzeTransaction returned ("" is nil)
    calls,         \* invocations of AnalyzeTransaction in this evaluation
    requests,      \* HTTP requests sent to the provider in this evaluation
    resp,          \* what client.Do and the body gave AnalyzeTransaction
    started,       \* main has reached router.Run: the server is serving
    returned,      \* <<>> or <<r>>, r the RiskResult CalculateRisk returned
    frames,        \* the locals of each of NumEvals concurrent evaluations
    ASGUARD_API_KEY,  \* the environment variable read by APIKeyAuth
    req,           \* the POST /analyze request being served
    handled,       \* the handler routes.AnalyzeTransaction ran for req
    call,          \* the locals of the handler's CalculateRisk call
    reply          \* the HTTP response to req

httpVars == <<ASGUARD_API_KEY, req, handled, call, reply>>

vars ==
    <<GROQ_API_KEY, fusion, pc, tx, finalScore, level, reasons, aiTriggered,
      aiResult, err, calls, requests, resp, started, returned, frames, httpVars>>

(* No response received (yet). *)
NoResponse == Response("none", 0, FALSE, FALSE, <<>>)

(* The HTTP transport.  A request to POST /analyze: its x-api-key header   *)
(* ("" when absent) and its body, which is either not JSON of the right    *)
(* shape (wellFormed FALSE) or a JSON object whose members are given by     *)
(* key, an absent member and a zero one ("" or 0) being written alike.     *)
APIKeys == {"", "wrong-key", "super-secret-key"}

Bodies ==
    [wellFormed : BOOLEAN, user_id : {"", "user_123"}, transaction_id : {"", "txn_456"},
     amount : {0, 50001}, currency : {"", "NGN", "USD"},
     ip_address : {"", "192.168.1.5"}, device_id : {"", "device_789"},
     sim_id : {"", "sim_001"}, timestamp : {"", "2026-02-13T10:00:00Z"},
     location : {"", "Lagos, Nigeria"}]

NoBody ==
    [wellFormed |-> FALSE, user_id |-> "", transaction_id |-> "", amount |-> 0,
     currency |-> "", ip_address |-> "", device_id |-> "", sim_id |-> "",
     timestamp |-> "", location |-> ""]

(* One malformed body stands for all of them. *)
HTTPRequests ==
    [apikey : APIKeys, body : {b \in Bodies : b.wellFormed} \cup {NoBody}]

NoRequest == [apikey |-> "", body |-> NoBody]

(* c.JSON(status, gin.H{...}); status 0: nothing written yet *)
NoReply == [status |-> 0, body |-> [error |-> ""]]

(* Concurrent evaluations: the server runs each request's handler, and so  *)
(* each CalculateRisk call, in a goroutine of its own.                     *)
NumEvals == 2
Evals == 1..NumEvals

(* The locals of a CalculateRisk call that has not started. *)
IdleFrame ==
    [pc |-> "idle", tx |-> NoTransaction, finalScore |-> 0, level |-> "LOW",
     reasons |-> <<>>, aiTriggered |-> FALSE, aiResult |-> ZeroAIResult, err |-> "",
     calls |-> 0, requests |-> 0, resp |-> NoResponse, returned |-> <<>>]

(* The transactions and responses the concurrent evaluations draw from:    *)
(* one transaction per rule level, and two responses per advisory outcome  *)
(* (failure, APPROVE, REVIEW, BLOCK).                                      *)
ConcTransactions ==
    {t \in Transactions :
        /\ t.Amount \in {0, 500001}
        /\ t.IPAddress = "" /\ t.Location = ""
        /\ \/ t.Amount = 0 /\ t.Currency = "NGN"
           \/ t.Amount = 500001 /\ t.Currency = "USD" /\ t.DeviceID = ""}

ConcResponses ==
    {Response(t, 0, FALSE, FALSE, <<>>) : t \in {"timeout", "refused"}}
      \cup {Response("ok", 200, TRUE, FALSE, <<<<d>>>>) :
              d \in {"{approve}", "{approve_out_of_range}", "{review}", "{review_extra}",
                     "{block}", "{block_no_reasoning}"}}

Init ==
    /\ GROQ_API_KEY \in {"", "gsk_live"}
    /\ fusion \in Fusions
    /\ pc = "idle"
    /\ tx = NoTransaction
    /\ finalScore = 0
    /\ level = "LOW"
    /\ reasons = <<>>
    /\ aiTriggered = FALSE
    /\ aiResult = ZeroAIResult
    /\ err = ""
    /\ calls = 0
    /\ requests = 0
    /\ resp = NoResponse
    /\ started = FALSE
    /\ returned = <<>>
    /\ frames = [i \in Evals |-> IdleFrame]
    /\ ASGUARD_API_KEY \in {"", "super-secret-key"}
    /\ req = NoRequest
    /\ handled = FALSE
    /\ call = IdleFrame
    /\ reply = NoReply

(* main: godotenv.Load (a failure is only logged), RegisterRoutes and      *)
(* router.Run.  No environment variable but PORT is read.                  *)
Main ==
    /\ ~started
    /\ started' = TRUE
    /\ UNCHANGED <<GROQ_API_KEY, fusion, pc, tx, finalScore, level, reasons,
                   aiTriggered, aiResult, err, calls, requests, resp, returned,
                   frames, httpVars>>

FinishPropagatesError(score, lvl, rs, out) ==
    LET m == Merge(lvl, rs, out)
    IN  IF out.err # ""
        THEN /\ err' = out.err
             /\ pc' = "failed"
             /\ UNCHANGED <<level, reasons, aiResult, returned>>
        ELSE /\ level' = m.level
             /\ reasons' = m.reasons
             /\ aiResult' = m.aiResult
             /\ err' = out.err
             /\ returned' = <<RiskResult(score, m.level, m.reasons, TRUE, m.aiResult)>>
             /\ pc' = "done"

(* The tail of CalculateRisk once AnalyzeTransaction has returned out. *)
Finish(score, lvl, rs, out) ==
    LET m == Merge(lvl, rs, out)
    IN  /\ level' = m.level
        /\ reasons' = m.reasons
        /\ aiResult' = m.aiResult
        /\ err' = out.err
        /\ returned' = <<RiskResult(score, m.level, m.reasons, TRUE, m.aiResult)>>
        /\ pc' = "done"

(* CalculateRisk(t) up to its return, or up to the point where the         *)
(* advisory client blocks in client.Do.                                    *)
CalculateRisk(t) ==
    /\ started
    /\ pc = "idle"
    /\ tx' = t
    /\ finalScore' = FinalScore(t, fusion)
    /\ IF ~AIGate(finalScore')
       THEN /\ level' = RuleLevel(finalScore')
            /\ reasons' = RuleReasons(t)
            /\ aiTriggered' = FALSE
            /\ returned' = <<RiskResult(finalScore', level', reasons', FALSE, ZeroAIResult)>>
            /\ pc' = "done"
            /\ UNCHANGED <<aiResult, err, calls, requests>>
       ELSE /\ aiTriggered' = TRUE
            /\ calls' = calls + 1
            /\ IF GROQ_API_KEY = ""
               THEN /\ Finish(finalScore', RuleLevel(finalScore'), RuleReasons(t),
                              Failed("GROQ_API_KEY is not set in environment"))
                    /\ UNCHANGED requests
               ELSE /\ level' = RuleLevel(finalScore')
                    /\ reasons' = RuleReasons(t)
                    /\ requests' = requests + 1
                    /\ pc' = "awaiting"
                    /\ UNCHANGED <<aiResult, err, returned>>
    /\ UNCHANGED <<GROQ_API_KEY, fusion, resp, started, frames, httpVars>>

AdvisoryResolvesRetrying(r) ==
    /\ pc = "awaiting"
    /\ resp' = r
    /\ IF AnalyzeResponse(r).err # "" /\ requests < 2
       THEN /\ requests' = requests + 1
            /\ calls' = calls + 1
            /\ UNCHANGED <<pc, level, reasons, aiResult, err, returned>>
       ELSE /\ Finish(finalScore, level, reasons, AnalyzeResponse(r))
            /\ UNCHANGED <<calls, requests>>
    /\ UNCHANGED <<GROQ_API_KEY, fusion, tx, finalScore, aiTriggered, started, frames, httpVars>>

(* client.Do returns (response, transport error or timeout); the rest of   *)
(* AnalyzeTransaction and of CalculateRisk runs.                           *)
AdvisoryResolves(r) ==
    /\ pc = "awaiting"
    /\ resp' = r
    /\ Finish(finalScore, level, reasons, AnalyzeResponse(r))
    /\ UNCHANGED <<GROQ_API_KEY, fusion, tx, finalScore, aiTriggered, calls, requests,
                   started, frames, httpVars>>

(* The caller has the result; the next call starts with fresh locals. *)
NextCall ==
    /\ pc = "done"
    /\ pc' = "idle"
    /\ tx' = NoTransaction
    /\ finalScore' = 0
    /\ level' = "LOW"
    /\ reasons' = <<>>
    /\ aiTriggered' = FALSE
    /\ aiResult' = ZeroAIResult
    /\ err' = ""
    /\ calls' = 0
    /\ requests' = 0
    /\ resp' = NoResponse
    /\ returned' = <<>>
    /\ UNCHANGED <<GROQ_API_KEY, fusion, started, frames, httpVars>>

Next ==
    \/ Main
    \/ \E t \in Transactions : CalculateRisk(t)
    \/ \E r \in Responses : AdvisoryResolves(r)
    \/ NextCall

Spec == Init /\ [][Next]_vars

FrameFinishRescoring(f, out) ==
    LET m == Merge(f.level, f.reasons, out)
        score == IF m.aiResult.RecommendedAction = "BLOCK" THEN 100 ELSE f.finalScore
    IN  [f EXCEPT !.level = m.level, !.reasons = m.reasons, !.aiResult = m.aiResult,
                  !.err = out.err, !.finalScore = score,
                  !.returned = <<RiskResult(score, m.level, m.reasons, TRUE, m.aiResult)>>,
                  !.pc = "done"]

(* The tail of CalculateRisk, on the locals f of one call. *)
FrameFinish(f, out) ==
    LET m == Merge(f.level, f.reasons, out)
    IN  [f EXCEPT !.level = m.level, !.reasons = m.reasons, !.aiResult = m.aiResult,
                  !.err = out.err,
                  !.returned = <<RiskResult(f.finalScore, m.level, m.reasons, TRUE,
                                            m.aiResult)>>,
                  !.pc = "done"]

(* CalculateRisk(t) from the computed finalScore s up to its return or to  *)
(* client.Do, as the locals of the call; the environment variable is the   *)
(* only thing it reads beyond its argument.                                *)
FrameScore(t, apiKey, s) ==
    LET scored == [IdleFrame EXCEPT !.tx = t, !.finalScore = s, !.level = RuleLevel(s),
                                    !.reasons = RuleReasons(t)]
        called == [scored EXCEPT !.aiTriggered = TRUE, !.calls = 1]
    IN  IF ~AIGate(s)
        THEN [scored EXCEPT !.returned = <<RiskResult(s, scored.level, scored.reasons,
                                                      FALSE, ZeroAIResult)>>,
                            !.pc = "done"]
        ELSE IF apiKey = ""
        THEN FrameFinish(called, Failed("GROQ_API_KEY is not set in environment"))
        ELSE [called EXCEPT !.requests = 1, !.pc = "awaiting"]

(* Evaluation i starts: its handler calls CalculateRisk(t). *)
ConcCalculateRisk(i, t) ==
    /\ started
    /\ frames[i].pc = "idle"
    /\ frames' = [frames EXCEPT ![i] = FrameScore(t, GROQ_API_KEY, FinalScore(t, fusion))]
    /\ UNCHANGED <<GROQ_API_KEY, fusion, pc, tx, finalScore, level, reasons, aiTriggered,
                   aiResult, err, calls, requests, resp, started, returned, httpVars>>

ConcAdvisoryResolvesShared(i, r) ==
    /\ frames[i].pc = "awaiting"
    /\ frames' = [frames EXCEPT
                    ![i] = FrameFinish([frames[i] EXCEPT !.resp = r,
                                                         !.level = frames[1].level,
                                                         !.reasons = frames[1].reasons],
                                       AnalyzeResponse(r))]
    /\ UNCHANGED <<GROQ_API_KEY, fusion, pc, tx, finalScore, level, reasons, aiTriggered,
                   aiResult, err, calls, requests, resp, started, returned, httpVars>>

(* client.Do of evaluation i returns; the rest of its AnalyzeTransaction   *)
(* and CalculateRisk runs on its own locals.                               *)
ConcAdvisoryResolves(i, r) ==
    /\ frames[i].pc = "awaiting"
    /\ frames' = [frames EXCEPT
                    ![i] = FrameFinish([frames[i] EXCEPT !.resp = r], AnalyzeResponse(r))]
    /\ UNCHANGED <<GROQ_API_KEY, fusion, pc, tx, finalScore, level, reasons, aiTriggered,
                   aiResult, err, calls, requests, resp, started, returned, httpVars>>

(* APIKeyAuth: TRUE when the middleware calls c.Next(), FALSE when it      *)
(* answers 401 and aborts.                                                 *)
APIKeyAuthNoEmptyCheck(apikey, expectedKey) == ~(apikey # expectedKey)

APIKeyAuth(apikey, expectedKey) == ~(apikey = "" \/ apikey # expectedKey)

(* c.ShouldBindJSON(&req) into a TransactionRequest: the body must decode  *)
(* and every field tagged binding:"required" must be non-zero.  The struct *)
(* has no field for "location", which the decoder skips.                   *)
ShouldBindJSONNoRequired(body) ==
    [ok |-> body.wellFormed,
     req |-> [UserID |-> body.user_id, TransactionID |-> body.transaction_id,
              Amount |-> body.amount, Currency |-> body.currency,
              IPAddress |-> body.ip_address, DeviceID |-> body.device_id,
              SimID |-> body.sim_id, Timestamp |-> body.timestamp]]

ShouldBindJSON(body) ==
    [ok |-> /\ body.wellFormed
            /\ body.user_id # "" /\ body.transaction_id # "" /\ body.amount # 0
            /\ body.currency # "" /\ body.ip_address # "" /\ body.device_id # ""
            /\ body.sim_id # "" /\ body.timestamp # "",
     req |-> [UserID |-> body.user_id, TransactionID |-> body.transaction_id,
              Amount |-> body.amount, Currency |-> body.currency,
              IPAddress |-> body.ip_address, DeviceID |-> body.device_id,
              SimID |-> body.sim_id, Timestamp |-> body.timestamp]]

(* services.TransactionData{...} as the handler builds it: Location is not *)
(* set and keeps its zero value.                                           *)
TransactionData(r) ==
    [UserID |-> r.UserID, TransactionID |-> r.TransactionID, Amount |-> r.Amount,
     Currency |-> r.Currency, IPAddress |-> r.IPAddress, DeviceID |-> r.DeviceID,
     Location |-> ""]

(* c.JSON(200, gin.H{...}) of the handler *)
OKReply(r, riskResult) ==
    [status |-> 200,
     body |-> [transaction_id |-> r.TransactionID, risk_score |-> riskResult.Score,
               risk_level |-> riskResult.Level, reasons |-> riskResult.Reasons,
               ai_confidence |-> riskResult.AIConfidence,
               ai_summary |-> riskResult.AISummary,
               message |-> "Transaction received successfully"]]

ErrorReply(status, error) == [status |-> status, body |-> [error |-> error]]

(* A POST /analyze request q is served: APIKeyAuth, then the handler       *)
(* routes.AnalyzeTransaction up to its reply or to the point where its     *)
(* CalculateRisk call blocks in client.Do.                                 *)
PostAnalyze(q) ==
    /\ started
    /\ reply = NoReply /\ call.pc = "idle"
    /\ req' = q
    /\ IF ~APIKeyAuth(q.apikey, ASGUARD_API_KEY)
       THEN /\ reply' = ErrorReply(401, "unauthorised")
            /\ UNCHANGED <<handled, call>>
       ELSE /\ handled' = TRUE
            /\ IF ~ShouldBindJSON(q.body).ok
               THEN /\ reply' = ErrorReply(400, "invalid request payload")
                    /\ UNCHANGED call
               ELSE /\ call' = FrameScore(TransactionData(ShouldBindJSON(q.body).req),
                                          GROQ_API_KEY,
                                          FinalScore(TransactionData(ShouldBindJSON(q.body).req),
                                                     fusion))
                    /\ reply' = IF call'.pc = "done"
                                THEN OKReply(ShouldBindJSON(q.body).req, call'.returned[1])
                                ELSE NoReply
    /\ UNCHANGED <<GROQ_API_KEY, fusion, pc, tx, finalScore, level, reasons, aiTriggered,
                   aiResult, err, calls, requests, resp, started, returned, frames,
                   ASGUARD_API_KEY>>

(* client.Do of the handler's evaluation returns; AnalyzeTransaction and   *)
(* CalculateRisk finish and the handler replies.                           *)
HandlerAdvisoryResolves(r) ==
    /\ call.pc = "awaiting"
    /\ call' = FrameFinish([call EXCEPT !.resp = r], AnalyzeResponse(r))
    /\ reply' = OKReply(ShouldBindJSON(req.body).req, call'.returned[1])
    /\ UNCHANGED <<GROQ_API_KEY, fusion, pc, tx, finalScore, level, reasons, aiTriggered,
                   aiResult, err, calls, requests, resp, started, returned, frames,
                   ASGUARD_API_KEY, req, handled>>

(* The reply has been sent; the server takes the next request. *)
NextRequest ==
    /\ reply # NoReply
    /\ req' = NoRequest
    /\ handled' = FALSE
    /\ call' = IdleFrame
    /\ reply' = NoReply
    /\ UNCHANGED <<GROQ_API_KEY, fusion, pc, tx, finalScore, level, reasons, aiTriggered,
                   aiResult, err, calls, requests, resp, started, returned, frames,
                   ASGUARD_API_KEY>>

NextHTTP ==
    \/ Main
    \/ \E q \in HTTPRequests : PostAnalyze(q)
    \/ \E r \in Responses : HandlerAdvisoryResolves(r)
    \/ NextRequest

SpecHTTP == Init /\ [][NextHTTP]_vars

NextConc ==
    \/ Main
    \/ \E i \in Evals, t \in ConcTransactions : ConcCalculateRisk(i, t)
    \/ \E i \in Evals, r \in ConcResponses : ConcAdvisoryResolves(i, r)

SpecConc == Init /\ [][NextConc]_vars

(* client.Do is bounded by http.Client{Timeout: 10 * time.Second}, which   *)
(* also covers reading the body: a request in flight always resolves.      *)
SpecLive == Spec /\ WF_vars(\E r \in Responses : AdvisoryResolves(r))

----------------------------------------------------------------------------
(* Properties.                                                             *)

LevelRank == [LOW |-> 0, MEDIUM |-> 1, HIGH |-> 2]

(* The level the specification derives from a rule score. *)
LevelOfScore(s) == IF s >= 70 THEN "HIGH" ELSE IF s >= 40 THEN "MEDIUM" ELSE "LOW"

Done == pc = "done"
Verdict == returned[1]
(* The advisory client was invoked and returned an opinion / an error. *)
AdvisorySucceeded == Done /\ calls = 1 /\ err = ""
AdvisoryFailed == Done /\ calls = 1 /\ err # ""

(* The reasons the rules are specified to give, in evaluation order. *)
SpecifiedRuleReasons(t) ==
    LET candidates ==
          <<[on |-> t.Amount > 50000,
             text |-> IF t.Amount > 500000 THEN "Very high transaction amount (>500k)"
                      ELSE IF t.Amount > 100000 THEN "High transaction amount (>100k)"
                      ELSE "Elevated transaction amount (>50k)"],
            [on |-> t.Currency # "NGN",
             text |-> "Foreign currency transaction (" \o t.Currency \o ")"],
            [on |-> t.DeviceID = "", text |-> "Missing device ID"],
            [on |-> t.IPAddress = "", text |-> "Missing IP address"],
            [on |-> t.Location = "", text |-> "Missing location"]>>
        fired == SelectSeq(candidates, LAMBDA c : c.on)
    IN  [i \in 1..Len(fired) |-> fired[i].text]

(* C1. Escalate-only: the level of every returned verdict is at least the  *)
(* level derived from its rule score alone (LOW < MEDIUM < HIGH), whatever *)
(* the advisory outcome was: not consulted, failed, APPROVE, REVIEW, BLOCK. *)
C1_EscalateOnly ==
    Done => LevelRank[Verdict.Level] >= LevelRank[LevelOfScore(Verdict.Score)]

(* A HIGH-by-rules transaction whose advisory opinion was APPROVE. *)
C1_Witness ==
    /\ AdvisorySucceeded
    /\ Verdict.AIRecommendation = "APPROVE"
    /\ LevelOfScore(Verdict.Score) = "HIGH"
    /\ Verdict.Level = "HIGH"

(* C2. Fail-safe: when the advisory client was invoked and returned an     *)
(* error, the verdict has level HIGH, advisory_triggered true, all four    *)
(* advisory fields zero/empty, and its reasons are the rule reasons        *)
(* followed by the fixed advisory-unavailable reason.                      *)
C2_FailSafe ==
    AdvisoryFailed =>
        /\ Verdict.Level = "HIGH"
        /\ Verdict.AITriggered = TRUE
        /\ Verdict.AIConfidence = 0
        /\ Verdict.AIFraudProbability = 0
        /\ Verdict.AIRecommendation = ""
        /\ Verdict.AISummary = ""
        /\ Verdict.Reasons = SpecifiedRuleReasons(tx) \o <<AIUnavailableReason>>

(* A MEDIUM-by-rules transaction whose advisory request failed in transport. *)
C2_Witness ==
    /\ AdvisoryFailed
    /\ err = "Groq HTTP request failed"
    /\ LevelOfScore(Verdict.Score) = "MEDIUM"
    /\ Verdict.Level = "HIGH"

(* C3. Advisory gate: once the rules are scored, the advisory client has   *)
(* been invoked (exactly once) if and only if the rule score is >= 40, and *)
(* advisory_triggered in the verdict is true exactly in that case.         *)
(* "Consulted" is the invocation of the advisory client by the gate.       *)
C3_AdvisoryGate ==
    /\ pc # "idle" => /\ (calls = 1) <=> (finalScore >= 40)
                      /\ (calls = 0) <=> (finalScore < 40)
    /\ Done => /\ Verdict.AITriggered <=> (Verdict.Score >= 40)
               /\ Verdict.AITriggered <=> (calls = 1)

(* An evaluation whose rule score is exactly 40, with the advisory consulted. *)
C3_Witness ==
    Done /\ Verdict.Score = 40 /\ calls = 1 /\ requests = 1 /\ Verdict.AITriggered

(* C4. When the advisory call succeeds with recommended_action BLOCK, the  *)
(* verdict level is HIGH and the reasons are the rule reasons followed by  *)
(* exactly one reason, which carries the advisory's reasoning text.        *)
C4_Block ==
    (AdvisorySucceeded /\ aiResult.RecommendedAction = "BLOCK") =>
        /\ Verdict.Level = "HIGH"
        /\ Verdict.Reasons =
             SpecifiedRuleReasons(tx) \o <<"AI recommends BLOCK: " \o aiResult.Reasoning>>

(* A MEDIUM-by-rules transaction blocked by the advisory. *)
C4_Witness ==
    /\ AdvisorySucceeded
    /\ aiResult.RecommendedAction = "BLOCK"
    /\ aiResult.Reasoning # ""
    /\ LevelOfScore(Verdict.Score) = "MEDIUM"
    /\ Verdict.Level = "HIGH"

(* C5. When the advisory call succeeds with recommended_action REVIEW, the *)
(* verdict level is MEDIUM if the rule-based level was LOW and the         *)
(* rule-based level otherwise (HIGH stays HIGH), and the reasons are the   *)
(* rule reasons followed by exactly one reason carrying the reasoning text. *)
C5_Review ==
    (AdvisorySucceeded /\ aiResult.RecommendedAction = "REVIEW") =>
        /\ Verdict.Level = IF LevelOfScore(Verdict.Score) = "LOW" THEN "MEDIUM"
                           ELSE LevelOfScore(Verdict.Score)
        /\ Verdict.Reasons =
             SpecifiedRuleReasons(tx) \o <<"AI recommends REVIEW: " \o aiResult.Reasoning>>

(* A HIGH-by-rules transaction with advisory REVIEW stays HIGH. *)
C5_Witness ==
    /\ AdvisorySucceeded
    /\ aiResult.RecommendedAction = "REVIEW"
    /\ LevelOfScore(Verdict.Score) = "HIGH"
    /\ Verdict.Level = "HIGH"

(* C6. When the advisory call succeeds with recommended_action APPROVE,    *)
(* the verdict level equals the rule-based level, and the reasons are the  *)
(* rule reasons followed by exactly one informational reason carrying the  *)
(* reasoning text.                                                         *)
C6_Approve ==
    (AdvisorySucceeded /\ aiResult.RecommendedAction = "APPROVE") =>
        /\ Verdict.Level = LevelOfScore(Verdict.Score)
        /\ Verdict.Reasons =
             SpecifiedRuleReasons(tx) \o <<"AI recommends APPROVE: " \o aiResult.Reasoning>>

(* A MEDIUM-by-rules transaction approved by the advisory stays MEDIUM. *)
C6_Witness ==
    /\ AdvisorySucceeded
    /\ aiResult.RecommendedAction = "APPROVE"
    /\ LevelOfScore(Verdict.Score) = "MEDIUM"
    /\ Verdict.Level = "MEDIUM"
    /\ Len(Verdict.Reasons) = Len(SpecifiedRuleReasons(tx)) + 1

(* The amount risk the specification's tiers give, in tenths. *)
SpecifiedAmountTenths(a) ==
    IF a > 500000 THEN 10 ELSE IF a > 100000 THEN 6 ELSE IF a > 50000 THEN 3 ELSE 0

(* floor(100 * (0.35*amountRisk + 0.20*currencyRisk + 0.15*deviceRisk +    *)
(* 0.15*ipRisk + 0.15*locationRisk)) in exact arithmetic.                  *)
SpecifiedScore(t) ==
    (35 * SpecifiedAmountTenths(t.Amount)
       + 200 * (IF t.Currency # "NGN" THEN 1 ELSE 0)
       + 150 * (IF t.DeviceID = "" THEN 1 ELSE 0)
       + 150 * (IF t.IPAddress = "" THEN 1 ELSE 0)
       + 150 * (IF t.Location = "" THEN 1 ELSE 0)) \div 10

(* C7. For every transaction the rule score is the floor of 100 times the  *)
(* weighted sum of the five rule risks (weights 0.35, 0.20, 0.15, 0.15,    *)
(* 0.15), an integer between 0 and 100.                                    *)
C7_ScoreIsFloorOfWeightedSum ==
    pc # "idle" => finalScore = SpecifiedScore(tx) /\ finalScore \in 0..100

(* x <= y for two float64 values *)
FloatLeq(x, y) ==
    LET e == IF x.e < y.e THEN x.e ELSE y.e
        a == IF x.m = <<>> THEN <<>> ELSE ShiftLeftN(x.m, x.e - e)
        b == IF y.m = <<>> THEN <<>> ELSE ShiftLeftN(y.m, y.e - e)
    IN  \/ Len(a) < Len(b)
        \/ /\ Len(a) = Len(b)
           /\ \/ a = b
              \/ \E i \in 1..Len(a) :
                    a[i] < b[i] /\ \A j \in (i + 1)..Len(a) : a[j] = b[j]

(* The rules have been scored and no advisory reply has been merged yet. *)
JustScored == pc # "idle" /\ resp = NoResponse

(* C8. The amount rule gives risk 1.0 above 500,000, 0.6 above 100,000 up  *)
(* to 500,000, 0.3 above 50,000 up to 100,000 and 0.0 up to 50,000,        *)
(* matching at most one tier; and for any smaller amount with the other    *)
(* fields unchanged neither the amount risk nor the rule score is larger.  *)
(* Stated of every state the scoring step leads to.                        *)
C8_AmountTiers ==
    JustScored =>
        /\ AmountRule(tx).risk =
             (IF SpecifiedAmountTenths(tx.Amount) = 10 THEN FromInt(1)
              ELSE IF SpecifiedAmountTenths(tx.Amount) = 0 THEN FromInt(0)
              ELSE FromDecimal(SpecifiedAmountTenths(tx.Amount), 10))
        /\ Len(AmountRule(tx).reasons) <= 1
        /\ \A a \in Amounts :
              a <= tx.Amount =>
                 /\ FloatLeq(AmountRule([tx EXCEPT !.Amount = a]).risk, AmountRule(tx).risk)
                 /\ FinalScore([tx EXCEPT !.Amount = a], fusion) <= finalScore

(* An amount of exactly 500,000 scored in the 0.6 tier. *)
C8_Witness ==
    /\ pc # "idle"
    /\ tx.Amount = 500000
    /\ AmountRule(tx).risk = FromDecimal(6, 10)

(* C9. The level derived from the rule score alone is HIGH for a score of  *)
(* 70 or more, MEDIUM for 40 to 69 and LOW below 40; a verdict returned    *)
(* without consulting the advisory client has exactly this level, which is *)
(* then LOW.                                                               *)
C9_RuleLevel ==
    /\ pc = "awaiting" => level = LevelOfScore(finalScore)
    /\ (Done /\ calls = 0) =>
          Verdict.Level = LevelOfScore(Verdict.Score) /\ Verdict.Level = "LOW"

(* A rule score of exactly 70 is HIGH before the advisory answers. *)
C9_Witness == pc = "awaiting" /\ finalScore = 70 /\ level = "HIGH"

(* C10. Each of the five rules gives exactly one reason when its risk is   *)
(* nonzero and none when it is zero; the rule reasons appear in the order  *)
(* amount, currency, device, IP, location, and in the verdict they precede *)
(* the advisory reason, of which there is one exactly when the advisory    *)
(* client was invoked.                                                     *)
C10_RuleReasons ==
    /\ pc # "idle" =>
          \A r \in {AmountRule(tx), CurrencyRule(tx), DeviceRule(tx), IPRule(tx),
                    LocationRule(tx)} :
             Len(r.reasons) = IF r.risk.m # <<>> THEN 1 ELSE 0
    /\ pc = "awaiting" => reasons = SpecifiedRuleReasons(tx)
    /\ Done =>
          LET n == Len(SpecifiedRuleReasons(tx))
          IN  /\ Len(Verdict.Reasons) = n + calls
              /\ SubSeq(Verdict.Reasons, 1, n) = SpecifiedRuleReasons(tx)

(* All five rules fired and an advisory reason follows their reasons. *)
C10_Witness ==
    /\ Done
    /\ Len(SpecifiedRuleReasons(tx)) = 5
    /\ Len(Verdict.Reasons) = 6
    /\ Verdict.Reasons[4] = "Missing IP address"

(* The advisory fields of a verdict. *)
AdvisoryFields(v) ==
    [FraudProbability |-> v.AIFraudProbability, RecommendedAction |-> v.AIRecommendation,
     Reasoning |-> v.AISummary, Confidence |-> v.AIConfidence]

(* C11. In every returned verdict the advisory fields equal the opinion    *)
(* the advisory client returned when it was invoked and succeeded, and are *)
(* all zero/empty when it was not invoked or returned an error; so they    *)
(* are populated only with advisory_triggered true and a successful call.  *)
C11_AdvisoryFields ==
    Done =>
        /\ AdvisorySucceeded =>
              AdvisoryFields(Verdict) = AnalyzeResponse(resp).result
        /\ ~AdvisorySucceeded => AdvisoryFields(Verdict) = ZeroAIResult
        /\ AdvisoryFields(Verdict) # ZeroAIResult =>
              Verdict.AITriggered /\ calls = 1 /\ err = ""

(* A verdict carrying a REVIEW opinion's four values. *)
C11_Witness ==
    /\ AdvisorySucceeded
    /\ Verdict.AIRecommendation = "REVIEW"
    /\ Verdict.AIConfidence = 85
    /\ Verdict.AIFraudProbability = 45
    /\ Verdict.AISummary = "Large USD transaction from Lagos warrants manual review"

(* C12. Every evaluation returns a RiskResult to its caller and never an  *)
(* error: the evaluation is only ever idle, waiting for the advisory call  *)
(* or returned with exactly one verdict, and an evaluation waiting for the *)
(* advisory call (which resolves or times out) eventually returns.         *)
C12_AlwaysReturns ==
    /\ [](pc \in {"idle", "awaiting", "done"})
    /\ [](Done => Len(returned) = 1 /\ Verdict.Level \in {"LOW", "MEDIUM", "HIGH"})
    /\ (pc = "awaiting") ~> Done

(* A verdict returned after the advisory request timed out. *)
C12_Witness ==
    /\ Done
    /\ resp.transport = "timeout"
    /\ err = "Groq HTTP request failed"
    /\ Len(returned) = 1

(* C13. Within one evaluation the advisory client is invoked at most once: *)
(* not at all when the rule score is below 40 and exactly once otherwise,  *)
(* and at most one request is sent.  A call in flight is followed directly *)
(* by the return of the verdict, with no further call or request, and the  *)
(* verdict is HIGH when the call failed.                                   *)
C13_AtMostOneCall ==
    /\ [](calls <= 1 /\ requests <= calls)
    /\ [](pc # "idle" => calls = IF finalScore < 40 THEN 0 ELSE 1)
    /\ [][pc = "awaiting" =>
            /\ pc' = "done"
            /\ calls' = calls
            /\ requests' = requests
            /\ err' # "" => returned'[1].Level = "HIGH"]_vars

(* A refused connection, answered by the HIGH verdict after one request. *)
C13_Witness ==
    /\ AdvisoryFailed
    /\ resp.transport = "refused"
    /\ requests = 1
    /\ Verdict.Level = "HIGH"

(* The text of the reply: the first choice's content without fences and    *)
(* surrounding white space (<<>> when the response carries no choice).     *)
ReplyText ==
    IF resp.transport = "ok" /\ resp.decodes /\ ~resp.Error /\ Len(resp.Choices) > 0
    THEN StripFences(resp.Choices[1])
    ELSE <<>>

(* The reply is one of the JSON object texts, with well-typed values. *)
ReplyIsObject ==
    /\ Len(ReplyText) = 1
    /\ ReplyText[1] \in DOMAIN JSONDocs
    /\ JSONDocs[ReplyText[1]].typed
ReplyDoc == JSONDocs[ReplyText[1]]

(* C14. When the advisory client was invoked, it returned an error and the *)
(* zero opinion if the transport failed, if the reply content was empty,   *)
(* if the reply did not parse as JSON, or if recommended_action was not    *)
(* APPROVE, REVIEW or BLOCK; every error comes with the zero opinion, and  *)
(* every opinion returned without error has one of the three actions.      *)
C14_ClientErrors ==
    Done /\ calls = 1 =>
        /\ resp.transport # "ok" => err # ""
        /\ ReplyText = <<>> => err # ""
        /\ ~ReplyIsObject => err # ""
        /\ ReplyIsObject
             /\ ReplyDoc.value.RecommendedAction \notin {"APPROVE", "REVIEW", "BLOCK"}
             => err # ""
        /\ err # "" => aiResult = ZeroAIResult /\ AdvisoryFields(Verdict) = ZeroAIResult
        /\ err = "" => aiResult.RecommendedAction \in {"APPROVE", "REVIEW", "BLOCK"}

(* A well-formed reply recommending HOLD was rejected. *)
C14_Witness ==
    /\ Done
    /\ requests = 1
    /\ resp.Choices = <<<<"{hold}">>>>
    /\ err = "AI returned unexpected action"
    /\ aiResult = ZeroAIResult

SuccessStatus(status) == status \in 200..299

(* C15. A response with a non-success status is an advisory error whatever *)
(* its body holds, and the verdict is the fail-safe HIGH one.              *)
C15_NonSuccessStatusIsError ==
    Done /\ requests = 1 /\ resp.transport = "ok" /\ ~SuccessStatus(resp.status) =>
        /\ err # ""
        /\ Verdict.Level = "HIGH"
        /\ AdvisoryFields(Verdict) = ZeroAIResult

(* C16. A reply whose fraud_probability or confidence is outside [0,1]     *)
(* (0..100 in hundredths) is an advisory error, and every verdict with     *)
(* populated advisory fields has both values within [0,1].                 *)
C16_OpinionInRange ==
    Done =>
        /\ ReplyIsObject
             /\ \/ ReplyDoc.value.FraudProbability \notin 0..100
                \/ ReplyDoc.value.Confidence \notin 0..100
             => err # ""
        /\ AdvisoryFields(Verdict) # ZeroAIResult =>
             /\ Verdict.AIFraudProbability \in 0..100
             /\ Verdict.AIConfidence \in 0..100

(* C17. A reply that is a JSON object lacking one of the four AIResult     *)
(* fields is an advisory error; a reply with all four fields, a valid      *)
(* action and additional fields is accepted, the additional fields being   *)
(* ignored.                                                                *)
C17_MissingFieldRejected ==
    Done /\ ReplyIsObject =>
        /\ ReplyDoc.keys # AllKeys => err # ""
        /\ ReplyDoc.keys = AllKeys /\ ReplyDoc.extra
             /\ ReplyDoc.value.RecommendedAction \in {"APPROVE", "REVIEW", "BLOCK"}
             => err = "" /\ aiResult = ReplyDoc.value

(* C18. While GROQ_API_KEY is absent the process does not start serving,   *)
(* no evaluation runs and none discovers the missing key.                  *)
C18_MissingCredentialFatal ==
    GROQ_API_KEY = "" =>
        /\ ~started
        /\ pc = "idle"
        /\ err # "GROQ_API_KEY is not set in environment"

FloatEq(x, y) == FloatLeq(x, y) /\ FloatLeq(y, x)

(* Every rule at its maximum risk. *)
AllRulesMax(t) ==
    /\ t.Amount > 500000
    /\ t.Currency # "NGN"
    /\ t.DeviceID = ""
    /\ t.IPAddress = ""
    /\ t.Location = ""

(* C19. The weights 0.35, 0.20, 0.15, 0.15, 0.15 sum to exactly 1.0: with  *)
(* every rule at its maximum the weighted sum is exactly 1.0 and the score *)
(* exactly 100, and no transaction scores more than 100.  Stated of every  *)
(* state the scoring step leads to.                                        *)
C19_WeightsSumToOne ==
    JustScored =>
        /\ finalScore <= 100
        /\ FloatLeq(WeightedScore(tx, fusion), FromInt(1))
        /\ AllRulesMax(tx) =>
             /\ FloatEq(FAdd(FAdd(FAdd(FAdd(FromDecimal(35, 100), FromDecimal(20, 100)),
                                       FromDecimal(15, 100)),
                                  FromDecimal(15, 100)),
                             FromDecimal(15, 100)),
                        FromInt(1))
             /\ FloatEq(WeightedScore(tx, fusion), FromInt(1))
             /\ finalScore = 100

(* The transaction with every rule at its maximum scored 100. *)
C19_Witness ==
    /\ pc # "idle"
    /\ AllRulesMax(tx)
    /\ finalScore = 100
    /\ Verdict.Score = 100

(* The verdict a transaction gets with a given advisory response when it   *)
(* is evaluated on its own.                                                *)
SoloVerdictOf(t, r, s) ==
    LET out == IF GROQ_API_KEY = ""
               THEN Failed("GROQ_API_KEY is not set in environment")
               ELSE AnalyzeResponse(r)
        m == Merge(RuleLevel(s), RuleReasons(t), out)
    IN  IF s < 40
        THEN RiskResult(s, RuleLevel(s), RuleReasons(t), FALSE, ZeroAIResult)
        ELSE RiskResult(s, m.level, m.reasons, TRUE, m.aiResult)

SoloVerdict(t, r) == SoloVerdictOf(t, r, FinalScore(t, fusion))

(* C20. In every interleaving of concurrent evaluations each returned      *)
(* verdict is the one its transaction gets with its advisory response when *)
(* evaluated alone, and every step touches the locals of one evaluation    *)
(* only.                                                                   *)
C20_Independent ==
    /\ [](\A i \in Evals :
            frames[i].pc = "done" =>
                frames[i].returned = <<SoloVerdict(frames[i].tx, frames[i].resp)>>)
    /\ [][\A i, j \in Evals :
            frames'[i] # frames[i] /\ frames'[j] # frames[j] => i = j]_vars

(* Evaluation 1 scored 44 and returned MEDIUM on APPROVE; evaluation 2      *)
(* scored another transaction 100 and returned HIGH after a timeout.       *)
C20_Witness ==
    /\ frames[1].pc = "done" /\ frames[2].pc = "done"
    /\ frames[1].tx # frames[2].tx
    /\ frames[1].finalScore = 44 /\ frames[1].resp.Choices = <<<<"{approve}">>>>
    /\ frames[1].returned[1].Level = "MEDIUM"
    /\ frames[2].finalScore = 100 /\ frames[2].resp.transport = "timeout"
    /\ frames[2].returned[1].Level = "HIGH"
    /\ frames[2].returned[1].AIRecommendation = ""

(* The advisory outcome branch an evaluation took. *)
FrameBranch(f) ==
    IF ~f.aiTriggered THEN "not consulted"
    ELSE IF f.err # "" THEN "failed"
    ELSE f.aiResult.RecommendedAction

(* The reasons of a returned verdict without the one the gate appended. *)
FrameRuleReasons(f) ==
    LET rs == f.returned[1].Reasons
    IN  IF f.returned[1].AITriggered THEN SubSeq(rs, 1, Len(rs) - 1) ELSE rs

(* C21. Two evaluations of the same transaction return the same score and  *)
(* the same rule reasons whatever responses their advisory calls received, *)
(* and the same level whenever they took the same advisory outcome branch  *)
(* (not consulted, failed, APPROVE, REVIEW, BLOCK), also on different      *)
(* responses; a consulted evaluation returns one reason more than its rule *)
(* reasons.                                                                *)
C21_Deterministic ==
    \A i, j \in Evals :
        frames[i].pc = "done" /\ frames[j].pc = "done" /\ frames[i].tx = frames[j].tx =>
            /\ frames[i].returned[1].Score = frames[j].returned[1].Score
            /\ FrameRuleReasons(frames[i]) = FrameRuleReasons(frames[j])
            /\ FrameBranch(frames[i]) = FrameBranch(frames[j]) =>
                 frames[i].returned[1].Level = frames[j].returned[1].Level
            /\ Len(frames[i].returned[1].Reasons) =
                 Len(RuleReasons(frames[i].tx)) + frames[i].calls

(* The same transaction evaluated twice, answered APPROVE once and BLOCK   *)
(* once: equal scores, different levels.                                   *)
C21_Witness ==
    /\ frames[1].pc = "done" /\ frames[2].pc = "done"
    /\ frames[1].tx = frames[2].tx
    /\ FrameBranch(frames[1]) = "APPROVE" /\ FrameBranch(frames[2]) = "BLOCK"
    /\ frames[1].returned[1].Score = 44 /\ frames[2].returned[1].Score = 44
    /\ frames[1].returned[1].Level = "MEDIUM" /\ frames[2].returned[1].Level = "HIGH"

(* C22. A transaction with amount 0, the home currency and empty device    *)
(* ID, IP address and location scores 45, has rule level MEDIUM and        *)
(* triggers the advisory call.                                             *)
C22_AbsenceOfDataScores45 ==
    (/\ pc # "idle"
     /\ tx.Amount = 0 /\ tx.Currency = "NGN"
     /\ tx.DeviceID = "" /\ tx.IPAddress = "" /\ tx.Location = "") =>
        /\ finalScore = 45
        /\ RuleLevel(finalScore) = "MEDIUM"
        /\ aiTriggered
        /\ calls = 1

(* C26. When the advisory client is invoked the rule level is MEDIUM or    *)
(* HIGH, never LOW; a successful REVIEW leaves the level at the rule       *)
(* level; and a verdict whose level differs from the rule level is HIGH,   *)
(* by a BLOCK opinion or by a failed call.                                 *)
C26_ReviewNeverUpgrades ==
    /\ calls = 1 => RuleLevel(finalScore) \in {"MEDIUM", "HIGH"}
    /\ Done /\ calls = 1 /\ err = "" /\ aiResult.RecommendedAction = "REVIEW" =>
          Verdict.Level = RuleLevel(finalScore)
    /\ Done /\ Verdict.Level # RuleLevel(finalScore) =>
          /\ Verdict.Level = "HIGH"
          /\ calls = 1
          /\ err # "" \/ aiResult.RecommendedAction = "BLOCK"

(* A MEDIUM-by-rules transaction with advisory REVIEW stays MEDIUM. *)
C26_Witness ==
    /\ Done
    /\ calls = 1 /\ err = ""
    /\ aiResult.RecommendedAction = "REVIEW"
    /\ RuleLevel(finalScore) = "MEDIUM"
    /\ Verdict.Level = "MEDIUM"

(* The content of the reply's first choice (<<>> when there is none). *)
ReplyContent ==
    IF resp.transport = "ok" /\ resp.decodes /\ ~resp.Error /\ Len(resp.Choices) > 0
    THEN resp.Choices[1]
    ELSE <<>>

(* A content wrapped in code fences: after the surrounding white space, an *)
(* opening fence, a tag line ended by a newline, a body and a closing      *)
(* fence.  FenceInner is what stands between the two fences.               *)
FenceInner(content) ==
    LET s == TrimSpace(content)
    IN  IF /\ Len(s) >= 2 * Len(Fence)
           /\ SubSeq(s, 1, Len(Fence)) = Fence
           /\ SubSeq(s, Len(s) - Len(Fence) + 1, Len(s)) = Fence
        THEN SubSeq(s, Len(Fence) + 1, Len(s) - Len(Fence))
        ELSE <<>>

FenceTagLength(content) ==
    LET inner == FenceInner(content)
        newlines == {i \in 1..Len(inner) : inner[i] = "\n"}
    IN  IF newlines = {} THEN 0 - 1
        ELSE (CHOOSE i \in newlines : \A j \in newlines : i <= j) - 1

FenceTag(content) == SubSeq(FenceInner(content), 1, FenceTagLength(content))

FenceBody(content) ==
    LET inner == FenceInner(content)
    IN  TrimSpace(SubSeq(inner, FenceTagLength(content) + 2, Len(inner)))

(* The fenced content holds one JSON object text that the client accepts   *)
(* when it is sent without fences, under a tag line of plain characters.   *)
FencedConforming(content) ==
    /\ FenceTagLength(content) >= 0
    /\ \A i \in 1..FenceTagLength(content) :
          FenceTag(content)[i] \notin DOMAIN JSONDocs \cup WhiteSpace \cup {Backquote}
    /\ Len(FenceBody(content)) = 1
    /\ FenceBody(content)[1] \in DOMAIN JSONDocs
    /\ AnalyzeResponse(Response("ok", 200, TRUE, FALSE, <<FenceBody(content)>>)).err = ""

(* C25. A reply whose content is a conforming opinion wrapped in a leading *)
(* fence, bare or with a language tag, and a trailing fence, with optional *)
(* white space around, gives the opinion the unwrapped object gives, and   *)
(* no error.                                                               *)
C25_FenceStripping ==
    Done /\ requests = 1 /\ FencedConforming(ReplyContent) =>
        /\ err = ""
        /\ aiResult = JSONDocs[FenceBody(ReplyContent)[1]].value

(* C23. POST /analyze is behind the API key: a request is answered 401,   *)
(* with the handler and the risk engine not run, exactly when its          *)
(* x-api-key header is empty or differs from ASGUARD_API_KEY; so with      *)
(* ASGUARD_API_KEY unset no request is authorized, and the handler runs    *)
(* only for a matching non-empty key.                                      *)
C23_APIKeyProtects ==
    /\ reply.status = 401 <=>
          /\ reply # NoReply
          /\ req.apikey = "" \/ req.apikey # ASGUARD_API_KEY
    /\ reply.status = 401 => ~handled /\ call = IdleFrame
    /\ (handled \/ call # IdleFrame) =>
          req.apikey # "" /\ req.apikey = ASGUARD_API_KEY
    /\ ASGUARD_API_KEY = "" => ~handled /\ call = IdleFrame /\ reply.status \in {0, 401}

(* With ASGUARD_API_KEY unset, a request without the header got 401. *)
C23_Witness ==
    /\ ASGUARD_API_KEY = ""
    /\ req.apikey = ""
    /\ req.body.wellFormed /\ req.body.device_id # "" /\ req.body.amount # 0
    /\ reply.status = 401
    /\ ~handled

(* C24. The location of the request reaches the scorer: the scorer's       *)
(* transaction has the request's location, and for a non-empty location    *)
(* there is no "Missing location" reason.                                  *)
C24_LocationCarried ==
    call.pc # "idle" =>
        /\ call.tx.Location = req.body.location
        /\ req.body.location # "" =>
              \A i \in 1..Len(call.reasons) : call.reasons[i] # "Missing location"

(* The body is a JSON object with every required member present and        *)
(* non-zero.                                                               *)
BodyValid(body) ==
    /\ body.wellFormed
    /\ \A f \in {"user_id", "transaction_id", "currency", "ip_address", "device_id",
                 "sim_id", "timestamp"} : body[f] # ""
    /\ body.amount # 0

(* C27. The handler calls CalculateRisk only after binding succeeded: a    *)
(* body that fails binding is answered 400 with no CalculateRisk call, so  *)
(* no transaction with an empty device ID or IP address or a zero amount   *)
(* reaches the scorer through /analyze.                                    *)
C27_ValidatedBeforeScoring ==
    /\ handled /\ ~BodyValid(req.body) =>
          reply.status = 400 /\ call = IdleFrame
    /\ call # IdleFrame =>
          /\ BodyValid(req.body)
          /\ call.tx.DeviceID # "" /\ call.tx.IPAddress # "" /\ call.tx.Amount # 0
    /\ reply.status = 200 => call.pc = "done" /\ BodyValid(req.body)

(* An authorized request without device_id was answered 400. *)
C27_Witness ==
    /\ handled
    /\ req.body.wellFormed
    /\ req.body.device_id = "" /\ req.body.ip_address # "" /\ req.body.amount # 0
    /\ reply.status = 400
    /\ call = IdleFrame

====
